---- MODULE Spec2Model ----
(***************************************************************************)
(* Event generation and ClickHouse loading pipeline                        *)
(* (src/main.py, src/data_generator.py, src/clickhouse_loader.py).         *)
(*                                                                         *)
(* Three entry points are modelled, one specification each:                *)
(*   Spec        main() of main.py, the orchestrated run;                  *)
(*   SpecGen     DataGenerator driven directly (as the __main__ block of   *)
(*               data_generator.py does), with a rich random source;       *)
(*   SpecLoader  ClickHouseLoader driven directly (as the __main__ block   *)
(*               of clickhouse_loader.py does) on arbitrary collections;   *)
(*   SpecPopulation  the sizing of the device population alone (the first  *)
(*               statements of both generation methods), for row counts    *)
(*               too large to generate row by row.                         *)
(*                                                                         *)
(* The ClickHouse client is opaque: every execute() either returns or      *)
(* raises, an INSERT that raises adds no row, and an INSERT into a table   *)
(* that does not exist always raises.                                      *)
(***************************************************************************)
EXTENDS Integers, Sequences, FiniteSets, TLC

VARIABLES
    entry,            \* which entry point runs: "main", "generator", "loader"
    args,             \* parsed command line: rows, batch_size, generate_only
    config,           \* DATA_GENERATION_CONFIG, CITIES, EVENTS, DEVICE_OS
    rnd,              \* values the shared random generator can return in this run
    pc,               \* position of the running entry point
    mode,             \* branch main() took: "none", "whole", "streamed"
    df,               \* dataframe returned by generate_dataframe / passed to load_data
    device_profiles,  \* device_profiles of the generation in progress (sampled ids)
    unique_devices,   \* len(device_ids) of the generation in progress
    gen,              \* the generator object of generate_data_batches
    df_batch,         \* batch bound by the for loop / passed to load_data_batch
    yielded,          \* every batch the generator object has yielded, in order
    load,             \* frame of load_data: data, position i, batch_size
    table,            \* rows held by the store table, in arrival order
    schema,           \* TRUE when the target table exists in the store
    calls,            \* every client.execute() issued, in order
    trace,            \* every generator / loader method invoked, in order
    conns,            \* one entry per ClickHouseLoader constructed: "open"/"closed"
    loader,           \* index in conns of the loader the name `loader` is bound to
    exit_status       \* -1 running, 0 returned normally, 1 ended by an exception

vars == <<entry, args, config, rnd, pc, mode, df, device_profiles, unique_devices,
          gen, df_batch, yielded, load, table, schema, calls, trace, conns, loader,
          exit_status>>

(***************************************************************************)
(* Bounds of the model.                                                    *)
(***************************************************************************)
\* main.py:37 compares args.rows with 1000000; the model keeps the comparison
\* and scales the threshold down so that both sides of it can be generated.
Threshold == 3
\* largest config['num_rows'] of an orchestrated run
MaxCfgRows == 5
\* largest --batch-size
MaxBatch == 3
\* largest row count when the generator is driven with the rich random source
MaxRichRows == 2
\* largest collection handed to the loader when it is driven directly
MaxLoadRows == 5
\* largest row count for which the size of the device population is computed
MaxPopRows == 10011

(***************************************************************************)
(* Arithmetic helpers.                                                     *)
(***************************************************************************)
Max(a, b) == IF a >= b THEN a ELSE b
Min(a, b) == IF a <= b THEN a ELSE b
CeilDiv(a, b) == IF a % b = 0 THEN a \div b ELSE (a \div b) + 1

RECURSIVE Flatten(_)
Flatten(ss) == IF ss = <<>> THEN <<>> ELSE Head(ss) \o Flatten(Tail(ss))

RECURSIVE SumLen(_)
SumLen(ss) == IF ss = <<>> THEN 0 ELSE Len(Head(ss)) + SumLen(Tail(ss))

(***************************************************************************)
(* Calendar: datetime.strptime, date arithmetic with timedelta, strftime.  *)
(* A date is [year, month, day]; its '%Y-%m-%d' text is the field triple   *)
(* <<year, month, day>>; adding days goes through the proleptic Gregorian  *)
(* ordinal as datetime does.                                               *)
(***************************************************************************)
DaysInMonthTable == <<31, 28, 31, 30, 31, 30, 31, 31, 30, 31, 30, 31>>
DaysBeforeMonthTable == <<0, 31, 59, 90, 120, 151, 181, 212, 243, 273, 304, 334>>

IsLeap(y) == (y % 4 = 0) /\ ((y % 100 # 0) \/ (y % 400 = 0))

DaysBeforeYear(y) ==
    LET p == y - 1 IN p * 365 + (p \div 4) - (p \div 100) + (p \div 400)

DaysBeforeMonth(y, m) ==
    DaysBeforeMonthTable[m] + (IF m > 2 /\ IsLeap(y) THEN 1 ELSE 0)

\* datetime.strptime(text, '%Y-%m-%d'): the date at midnight
Strptime(text) == [year |-> text[1], month |-> text[2], day |-> text[3]]

\* date.strftime('%Y-%m-%d')
Strftime(d) == <<d.year, d.month, d.day>>

ToOrdinal(d) == DaysBeforeYear(d.year) + DaysBeforeMonth(d.year, d.month) + d.day

FromOrdinal(ord) ==
    LET n0   == ord - 1
        n400 == n0 \div 146097
        r400 == n0 % 146097
        n100 == r400 \div 36524
        r100 == r400 % 36524
        n4   == r100 \div 1461
        r4   == r100 % 1461
        n1   == r4 \div 365
        n    == r4 % 365
        year == n400 * 400 + 1 + n100 * 100 + n4 * 4 + n1
    IN  IF n1 = 4 \/ n100 = 4
        THEN [year |-> year - 1, month |-> 12, day |-> 31]
        ELSE LET leap  == (n1 = 3) /\ (n4 # 24 \/ n100 = 3)
                 m0    == (n + 50) \div 32
                 p0    == DaysBeforeMonthTable[m0]
                            + (IF m0 > 2 /\ leap THEN 1 ELSE 0)
                 month == IF p0 > n THEN m0 - 1 ELSE m0
                 prec  == IF p0 > n
                          THEN p0 - (DaysInMonthTable[month]
                                      + (IF month = 2 /\ leap THEN 1 ELSE 0))
                          ELSE p0
             IN  [year |-> year, month |-> month, day |-> n - prec + 1]

\* order of date objects
DateLT(a, b) ==
    \/ a.year < b.year
    \/ a.year = b.year /\ a.month < b.month
    \/ a.year = b.year /\ a.month = b.month /\ a.day < b.day
DateLE(a, b) == a = b \/ DateLT(a, b)

\* the date part of a datetime
DateOf(t) == [year |-> t.year, month |-> t.month, day |-> t.day]
SecondOfDay(t) == t.hour * 3600 + t.minute * 60 + t.second

\* order of datetime objects, the sort key of sort_values('event_time')
TimeLE(a, b) ==
    \/ DateLT(DateOf(a), DateOf(b))
    \/ DateOf(a) = DateOf(b) /\ SecondOfDay(a) <= SecondOfDay(b)

\* _random_date: every date start + k days, k = random.randint(0, delta.days)
RandomDates(start_date, end_date) ==
    LET start == Strptime(start_date)
        end   == Strptime(end_date)
        delta == ToOrdinal(end) - ToOrdinal(start)
    IN  { FromOrdinal(ToOrdinal(start) + random_days) : random_days \in 0..delta }

\* _random_datetime: the date with a random hour, minute and second
RandomDatetime(date, hms) ==
    [year |-> date.year, month |-> date.month, day |-> date.day,
     hour |-> hms[1], minute |-> hms[2], second |-> hms[3]]

(***************************************************************************)
(* DataGenerator: device population and event records.                     *)
(***************************************************************************)
Range(s) == { s[i] : i \in 1..Len(s) }

\* floor of the device population (data_generator.py:27 and :103)
MinDevices == 1000

\* unique_devices = max(1000, int(num_rows * 0.1)); int() truncates
UniqueDevices(num_rows) == Max(MinDevices, num_rows \div 10)

\* self.events with the weights of _weighted_random_event, in tenths
Events == <<"view", "purchase", "add_to_cart">>
Weights == <<7, 2, 1>>

\* _weighted_random_event: any event of non-zero weight the generator can return
WeightedRandomEvents ==
    { config.events[i] : i \in { j \in 1..Len(Weights) : Weights[j] > 0 } }
        \cap rnd.events

\* the profile dictionaries one device can be given (lines 37-44, 111-118)
ProfileChoices ==
    [ city         : Range(config.cities),
      device_os    : Range(config.device_os),
      created_date : RandomDates(config.start_date, config.end_date) ]

\* device_profiles, for the device ids the random generator can pick
Populations == [ rnd.devices -> ProfileChoices ]

\* faulty variant: the city is taken from the configuration, not from the device
EventRecordFirstCity(device_id, profile, event_date, hms, event) ==
    [ date       |-> event_date,
      event      |-> event,
      device_id  |-> device_id,
      event_time |-> RandomDatetime(event_date, hms),
      city       |-> config.cities[1],
      device_os  |-> profile.device_os ]

\* the dictionary appended to data / batch_data for one row
EventRecord(device_id, profile, event_date, hms, event) ==
    [ date       |-> event_date,
      event      |-> event,
      device_id  |-> device_id,
      event_time |-> RandomDatetime(event_date, hms),
      city       |-> profile.city,
      device_os  |-> profile.device_os ]

\* faulty variant: the event date is drawn from the configured start date
EventDatesFromStart(profile) == RandomDates(config.start_date, config.end_date)

\* event dates a device can get: _random_date(created_date as text, end_date)
EventDates(profile) ==
    RandomDates(Strftime(profile.created_date), config.end_date)

\* every row one iteration of the row loop can append
RecordChoices(profiles) ==
    UNION { { EventRecord(device_id, profiles[device_id], event_date, hms, event) :
                event_date \in EventDates(profiles[device_id]),
                hms \in rnd.times,
                event \in WeightedRandomEvents } :
            device_id \in rnd.devices }

IsSortedByEventTime(s) ==
    \A i \in 1..(Len(s) - 1) : TimeLE(s[i].event_time, s[i + 1].event_time)

\* df.sort_values('event_time').reset_index(drop=True): the default sort is not
\* stable, so rows of equal event_time can come out in any order
SortValues(data) ==
    { s \in { [i \in 1..Len(data) |-> data[p[i]]] : p \in Permutations(1..Len(data)) } :
        IsSortedByEventTime(s) }

\* num_batches of generate_data_batches and of load_data
NumBatches(total_rows, batch_size) == (total_rows + batch_size - 1) \div batch_size

\* faulty variant: the last batch is not capped by the rows that remain
CurrentBatchSizeUncapped(batch_size, total_rows, batch_num) == batch_size

\* current_batch_size of generate_data_batches
CurrentBatchSize(batch_size, total_rows, batch_num) ==
    Min(batch_size, total_rows - batch_num * batch_size)

(***************************************************************************)
(* Control transfer.                                                       *)
(***************************************************************************)
\* continue at p; reaching "done" is the normal end (status 0)
Goto(p) ==
    /\ pc' = p
    /\ exit_status' = IF p = "done" THEN 0 ELSE exit_status

\* an exception leaves every frame: main prints it and calls sys.exit(1)
Raise ==
    /\ pc' = "done"
    /\ exit_status' = 1

(***************************************************************************)
(* ClickHouseLoader helpers.                                               *)
(***************************************************************************)
\* one client.execute(): the statement kind, whether it returned, rows sent
Call(op, ok, rows) == [op |-> op, ok |-> ok, rows |-> rows]

\* the tuple built from one row for the INSERT
ToTuple(row) ==
    <<row.date, row.event, row.device_id, row.event_time, row.city, row.device_os>>

\* rows = [...] built from a batch
Rows(batch) == [ i \in 1..Len(batch) |-> ToTuple(batch[i]) ]

\* faulty variant: the store keeps all but the last row of the batch
InsertedPartially(tbl, rows) == tbl \o SubSeq(rows, 1, Len(rows) - 1)

\* the table after client.execute(insert_sql, rows) has returned: one call
\* carries the whole batch
Inserted(tbl, rows) == tbl \o rows

\* faulty variant: the slice takes one element too many
SliceOverlapping(data, i, j) == SubSeq(data, i + 1, Min(j + 1, Len(data)))

\* data[i:j] of a Python list, 0 <= i <= j
Slice(data, i, j) == SubSeq(data, i + 1, Min(j, Len(data)))

\* the executes of verify_data_count, which swallows their exceptions
VerifyCalls(outcome) ==
    CASE outcome = "count_fail" -> << Call("count", FALSE, <<>>) >>
      [] outcome = "stats_fail" -> << Call("count", TRUE, <<>>), Call("stats", FALSE, <<>>) >>
      [] OTHER                  -> << Call("count", TRUE, <<>>), Call("stats", TRUE, <<>>) >>

VerifyOutcomes == {"count_fail", "stats_fail", "ok"}

\* faulty variant: verify_data_count re-raises what its queries raise
VerifyReturnOrRaise(outcome, next) == IF outcome = "ok" THEN Goto(next) ELSE Raise

\* verify_data_count: except Exception: log, no raise (lines 226-227); the
\* method returns to its caller whatever its queries did
VerifyReturn(outcome, next) == Goto(next)

NoLoad == [active |-> FALSE, data |-> <<>>, i |-> 0, batch_size |-> 0]
NoGen  == [state |-> "none", batch_size |-> 0, total_rows |-> 0,
           num_batches |-> 0, batch_num |-> 0]

(***************************************************************************)
(* DataGenerator.generate_dataframe (data_generator.py 19-90).             *)
(***************************************************************************)
GenerateDataframe ==
    /\ pc = "generate"
    /\ trace' = Append(trace, "generate_dataframe")
    /\ unique_devices' = UniqueDevices(args.rows)
    /\ \E profiles \in Populations :
         /\ device_profiles' = profiles
         /\ IF args.rows <= 0
            THEN \* pd.DataFrame([]) has no column: sort_values('event_time')
                 \* raises KeyError
                 /\ df' = df
                 /\ Raise
            ELSE \E data \in [1..args.rows -> RecordChoices(profiles)] :
                   \E sorted \in SortValues(data) :
                     /\ df' = sorted
                     /\ Goto(IF entry = "main" /\ ~args.generate_only
                             THEN "create_table" ELSE "done")
    /\ UNCHANGED <<entry, args, config, rnd, mode, gen, df_batch, yielded, load,
                   table, schema, calls, conns, loader>>

\* lines 26-31 on their own: unique_devices and the list of device ids
DeviceIdsOfDataframe ==
    /\ pc = "device_ids"
    /\ trace' = Append(trace, "generate_dataframe")
    /\ unique_devices' = UniqueDevices(args.rows)
    /\ Goto("done")
    /\ UNCHANGED <<entry, args, config, rnd, mode, df, device_profiles, gen,
                   df_batch, yielded, load, table, schema, calls, conns, loader>>

\* lines 97-106 on their own: total_rows, unique_devices and the device ids
DeviceIdsOfBatches ==
    /\ pc = "batch_device_ids"
    /\ trace' = Append(trace, "generate_data_batches")
    /\ unique_devices' = UniqueDevices(config.num_rows)
    /\ Goto("done")
    /\ UNCHANGED <<entry, args, config, rnd, mode, df, device_profiles, gen,
                   df_batch, yielded, load, table, schema, calls, conns, loader>>

(***************************************************************************)
(* DataGenerator.generate_data_batches (data_generator.py 92-154).         *)
(***************************************************************************)
\* faulty variant: the caller drains the generator before loading anything
AfterYieldEager == "loop"

\* where control goes at a yield: into the body of main's for loop (main.py:68-70);
\* a caller that only collects the batches asks for the next one
AfterYield == IF entry = "main" THEN "load_batch" ELSE "loop"

\* the call itself only creates the generator object (main.py:65)
MakeGenerator ==
    /\ pc = "make_gen"
    /\ trace' = Append(trace, "generate_data_batches")
    /\ gen' = [NoGen EXCEPT !.state = "created", !.batch_size = args.batch_size]
    /\ Goto("loop")
    /\ UNCHANGED <<entry, args, config, rnd, mode, df, device_profiles,
                   unique_devices, df_batch, yielded, load, table, schema, calls,
                   conns, loader>>

\* next(batch_generator): the first call runs lines 94-118, every call runs the
\* batch loop up to the next yield or to the end of the function
GenNext ==
    /\ pc = "loop"
    /\ gen.state \in {"created", "suspended"}
    /\ LET first       == gen.state = "created"
           total_rows  == IF first THEN config.num_rows ELSE gen.total_rows
           num_batches == IF first THEN NumBatches(total_rows, gen.batch_size)
                                   ELSE gen.num_batches
           batch_num   == IF first THEN 0 ELSE gen.batch_num + 1
       IN  \E profiles \in (IF first THEN Populations ELSE {device_profiles}) :
             /\ device_profiles' = profiles
             /\ unique_devices' = IF first THEN UniqueDevices(total_rows)
                                           ELSE unique_devices
             /\ IF batch_num < num_batches
                THEN \E batch_data \in
                          [1..CurrentBatchSize(gen.batch_size, total_rows, batch_num)
                              -> RecordChoices(profiles)] :
                       /\ gen' = [state |-> "suspended", batch_size |-> gen.batch_size,
                                  total_rows |-> total_rows,
                                  num_batches |-> num_batches, batch_num |-> batch_num]
                       /\ df_batch' = batch_data
                       /\ yielded' = Append(yielded, batch_data)
                       /\ Goto(AfterYield)
                ELSE /\ gen' = [state |-> "finished", batch_size |-> gen.batch_size,
                                total_rows |-> total_rows,
                                num_batches |-> num_batches, batch_num |-> batch_num]
                     /\ UNCHANGED <<df_batch, yielded>>
                     /\ Goto(IF entry = "main" THEN "verify" ELSE "done")
    /\ UNCHANGED <<entry, args, config, rnd, mode, df, load, table, schema, calls,
                   trace, conns, loader>>

(***************************************************************************)
(* ClickHouseLoader (clickhouse_loader.py).                                *)
(***************************************************************************)
\* ClickHouseLoader(): __init__ calls connect, which runs SELECT version() and
\* re-raises what it raises
ConnectLoader(next) ==
    \E ok \in BOOLEAN :
      /\ calls' = Append(calls, Call("version", ok, <<>>))
      /\ IF ok
         THEN /\ conns' = Append(conns, "open")
              /\ loader' = Len(conns) + 1
              /\ Goto(next)
         ELSE /\ UNCHANGED <<conns, loader>>
              /\ Raise

\* where main continues after create_table returns (main.py:46-49 and :60-65)
AfterCreateTable ==
    IF entry # "main" THEN "done"
    ELSE IF mode = "whole" THEN "load_data" ELSE "make_gen"

\* faulty variant: main verifies once more after load_data has verified
AfterLoadDataVerifyAgain == IF entry = "main" THEN "verify" ELSE "done"

\* where main continues after load_data returns (main.py:49-51)
AfterLoadData == IF entry = "main" THEN "disconnect" ELSE "done"

\* where main continues after load_data_batch returns (main.py:68-70)
AfterLoadDataBatch == IF entry = "main" THEN "loop" ELSE "done"

\* faulty variant: the schema error is logged and swallowed
CreateTableSwallow == Goto(AfterCreateTable)

\* faulty variant: the rejected statement is issued again
CreateTableRetry == Goto("create_table")

\* create_database / create_table: except Exception: log, raise (lines 44-46, 76-78)
CreateTableRaise == Raise

\* faulty variant: the failed batch is tried again instead of raising
LoadDataRetry == Goto("load_insert")

\* load_data: except Exception: log, raise (lines 157-159)
LoadDataRaise == Raise

\* load_data_batch: except Exception: log, raise (lines 198-200)
LoadDataBatchRaise == Raise

\* df.empty of load_data (line 105)
FrameEmpty(frame) == frame = <<>>

\* faulty variant: the emptiness check is missing
BatchNeverEmpty(batch) == FALSE

\* df_batch.empty of load_data_batch (line 171)
BatchEmpty(batch) == batch = <<>>

\* create_table: create_database, CREATE TABLE IF NOT EXISTS, then
\* show_table_structure, which swallows the exception of its DESCRIBE
CreateTable ==
    /\ pc = "create_table"
    /\ trace' = Append(trace, "create_table")
    /\ \E outcome \in {"database_fail", "table_fail", "describe_fail", "ok"} :
         IF outcome = "database_fail"
         THEN /\ calls' = Append(calls, Call("create_database", FALSE, <<>>))
              /\ schema' = schema
              /\ CreateTableRaise
         ELSE IF outcome = "table_fail"
         THEN /\ calls' = calls \o << Call("create_database", TRUE, <<>>),
                                      Call("create_table", FALSE, <<>>) >>
              /\ schema' = schema
              /\ CreateTableRaise
         ELSE /\ calls' = calls \o << Call("create_database", TRUE, <<>>),
                                      Call("create_table", TRUE, <<>>),
                                      Call("describe", outcome = "ok", <<>>) >>
              /\ schema' = TRUE
              /\ Goto(AfterCreateTable)
    /\ UNCHANGED <<entry, args, config, rnd, mode, df, device_profiles,
                   unique_devices, gen, df_batch, yielded, load, table, conns, loader>>

\* load_data, lines 100-126: an empty dataframe returns at once, without verifying
LoadDataBegin ==
    /\ pc = "load_data"
    /\ trace' = Append(trace, "load_data")
    /\ IF FrameEmpty(df)
       THEN /\ load' = load
            /\ Goto(AfterLoadData)
       ELSE \* range(0, total_rows, batch_size) has an element when total_rows > 0
            /\ load' = [active |-> TRUE, data |-> df, i |-> 0,
                        batch_size |-> args.batch_size]
            /\ Goto(IF 0 < Len(df) THEN "load_insert" ELSE "load_verify")
    /\ UNCHANGED <<entry, args, config, rnd, mode, df, device_profiles,
                   unique_devices, gen, df_batch, yielded, table, schema, calls,
                   conns, loader>>

\* load_data, lines 128-159: one iteration of the batch loop
LoadDataInsert ==
    /\ pc = "load_insert"
    /\ LET batch == Slice(load.data, load.i, load.i + load.batch_size)
           rows  == Rows(batch)
       IN  \E ok \in BOOLEAN :
             /\ ok => schema
             /\ calls' = Append(calls, Call("insert", ok, rows))
             /\ IF ok
                THEN /\ table' = Inserted(table, rows)
                     /\ load' = [load EXCEPT !.i = load.i + load.batch_size]
                     /\ Goto(IF load.i + load.batch_size < Len(load.data)
                             THEN "load_insert" ELSE "load_verify")
                ELSE /\ UNCHANGED <<table, load>>
                     /\ LoadDataRaise
    /\ UNCHANGED <<entry, args, config, rnd, mode, df, device_profiles,
                   unique_devices, gen, df_batch, yielded, schema, trace, conns,
                   loader>>

\* load_data, lines 161-164: after the loop it calls verify_data_count and returns
LoadDataVerify ==
    /\ pc = "load_verify"
    /\ trace' = Append(trace, "verify_data_count")
    /\ \E outcome \in VerifyOutcomes :
         /\ calls' = calls \o VerifyCalls(outcome)
         /\ VerifyReturn(outcome, AfterLoadData)
    /\ load' = [load EXCEPT !.active = FALSE]
    /\ UNCHANGED <<entry, args, config, rnd, mode, df, device_profiles,
                   unique_devices, gen, df_batch, yielded, table, schema, conns,
                   loader>>

\* load_data_batch, lines 166-200
LoadDataBatch ==
    /\ pc = "load_batch"
    /\ trace' = Append(trace, "load_data_batch")
    /\ IF BatchEmpty(df_batch)
       THEN /\ UNCHANGED <<calls, table>>
            /\ Goto(AfterLoadDataBatch)
       ELSE \E ok \in BOOLEAN :
              /\ ok => schema
              /\ calls' = Append(calls, Call("insert", ok, Rows(df_batch)))
              /\ IF ok
                 THEN /\ table' = Inserted(table, Rows(df_batch))
                      /\ Goto(AfterLoadDataBatch)
                 ELSE /\ table' = table
                      /\ LoadDataBatchRaise
    /\ UNCHANGED <<entry, args, config, rnd, mode, df, device_profiles,
                   unique_devices, gen, df_batch, yielded, load, schema, conns,
                   loader>>

\* verify_data_count called by main after the batch loop (main.py:73)
Verify ==
    /\ pc = "verify"
    /\ trace' = Append(trace, "verify_data_count")
    /\ \E outcome \in VerifyOutcomes :
         /\ calls' = calls \o VerifyCalls(outcome)
         /\ VerifyReturn(outcome, "disconnect")
    /\ UNCHANGED <<entry, args, config, rnd, mode, df, device_profiles,
                   unique_devices, gen, df_batch, yielded, load, table, schema,
                   conns, loader>>

\* loader.disconnect() (main.py:51 and :74), then the end of main
Disconnect ==
    /\ pc = "disconnect"
    /\ trace' = Append(trace, "disconnect")
    /\ conns' = [conns EXCEPT ![loader] = "closed"]
    /\ Goto("done")
    /\ UNCHANGED <<entry, args, config, rnd, mode, df, device_profiles,
                   unique_devices, gen, df_batch, yielded, load, table, schema,
                   calls, loader>>

(***************************************************************************)
(* main (main.py 30-83).                                                   *)
(***************************************************************************)
\* line 31: loader = ClickHouseLoader(), before the try block
Connect ==
    /\ pc = "connect"
    /\ ConnectLoader("choose_mode")
    /\ UNCHANGED <<entry, args, config, rnd, mode, df, device_profiles,
                   unique_devices, gen, df_batch, yielded, load, table, schema,
                   trace>>

\* faulty variant: the comparison is strict
WholeDatasetBelow(rows) == rows < Threshold

\* line 37: if args.rows <= 1000000
WholeDataset(rows) == rows <= Threshold

\* lines 37, 41 and 55: the branch, and what the streamed branch does first
ChooseMode ==
    /\ pc = "choose_mode"
    /\ IF WholeDataset(args.rows)
       THEN /\ mode' = "whole"
            /\ Goto("generate")
       ELSE /\ mode' = "streamed"
            /\ Goto(IF args.generate_only THEN "make_gen" ELSE "new_loader")
    /\ UNCHANGED <<entry, args, config, rnd, df, device_profiles, unique_devices,
                   gen, df_batch, yielded, load, table, schema, calls, trace,
                   conns, loader>>

\* line 57: loader = ClickHouseLoader() again; the first loader stays as it is
NewLoader ==
    /\ pc = "new_loader"
    /\ ConnectLoader("create_table")
    /\ UNCHANGED <<entry, args, config, rnd, mode, df, device_profiles,
                   unique_devices, gen, df_batch, yielded, load, table, schema,
                   trace>>

(***************************************************************************)
(* Inputs: configuration, random source, collections.                      *)
(***************************************************************************)
\* device ids random.choice(device_ids) can return: a sample of the population
DeviceSample == {1, 2}

\* a one-day, one-city configuration with num_rows = n
PoorConfig(n) ==
    [ num_rows |-> n, start_date |-> <<2025, 1, 1>>, end_date |-> <<2025, 1, 1>>,
      cities |-> <<"Moscow">>, device_os |-> <<"Android">>, events |-> Events ]

\* a configuration whose dates span a year's end, with num_rows = n
RichConfig(n) ==
    [ num_rows |-> n, start_date |-> <<2024, 12, 31>>, end_date |-> <<2025, 1, 1>>,
      cities |-> <<"Moscow", "Kazan">>, device_os |-> <<"Android", "iOS">>,
      events |-> Events ]

\* a random source that varies the device only
PoorRandom ==
    [ devices |-> DeviceSample, times |-> { <<0, 0, 0>> }, events |-> {"view"} ]

\* a random source that varies device, time of day and event
RichRandom ==
    [ devices |-> DeviceSample, times |-> { <<0, 0, 0>>, <<23, 59, 59>> },
      events |-> {"view", "purchase"} ]

\* the rows of the collections handed to the loader directly
LoaderRows ==
    { EventRecord(device_id,
                  [city |-> "Moscow", device_os |-> "Android",
                   created_date |-> [year |-> 2025, month |-> 1, day |-> 1]],
                  [year |-> 2025, month |-> 1, day |-> 1], <<0, 0, 0>>, "view") :
        device_id \in DeviceSample }

LoaderInputs == UNION { [1..n -> LoaderRows] : n \in 0..MaxLoadRows }

\* what every entry point starts from
Fresh ==
    /\ mode = "none"
    /\ device_profiles = <<>>
    /\ unique_devices = 0
    /\ gen = NoGen
    /\ yielded = <<>>
    /\ load = NoLoad
    /\ trace = <<>>
    /\ exit_status = -1

\* main(): any command line, a store with or without the table, no rows of the run
Init ==
    /\ entry = "main"
    /\ args \in [ rows : 0..(Threshold + 1), batch_size : 1..MaxBatch,
                  generate_only : BOOLEAN ]
    /\ config \in { PoorConfig(n) : n \in 0..MaxCfgRows }
    /\ rnd = PoorRandom
    /\ pc = "connect"
    /\ df = <<>>
    /\ df_batch = <<>>
    /\ table = <<>>
    /\ schema \in BOOLEAN
    /\ calls = <<>>
    /\ conns = <<>>
    /\ loader = 0
    /\ Fresh

\* the generator alone: generate_dataframe(rows), or list(generate_data_batches(b))
InitGen ==
    /\ entry = "generator"
    /\ pc \in {"generate", "make_gen"}
    /\ args \in [ rows : 0..MaxRichRows, batch_size : 1..MaxBatch,
                  generate_only : {FALSE} ]
    /\ config \in { RichConfig(n) : n \in 0..MaxRichRows }
    /\ pc = "generate" => config.num_rows = 0 /\ args.batch_size = 1
    /\ pc = "make_gen" => args.rows = 0
    /\ rnd = RichRandom
    /\ df = <<>>
    /\ df_batch = <<>>
    /\ table = <<>>
    /\ schema = FALSE
    /\ calls = <<>>
    /\ conns = <<>>
    /\ loader = 0
    /\ Fresh

\* a constructed loader alone: one method call on any collection
InitLoader ==
    /\ entry = "loader"
    /\ pc \in {"create_table", "load_data", "load_batch", "verify"}
    /\ args \in [ rows : {0}, batch_size : 1..MaxBatch, generate_only : {FALSE} ]
    /\ pc # "load_data" => args.batch_size = 1
    /\ config = PoorConfig(0)
    /\ rnd = PoorRandom
    /\ \E input \in LoaderInputs :
         /\ pc \in {"create_table", "verify"} => input = <<>>
         /\ df = IF pc = "load_data" THEN input ELSE <<>>
         /\ df_batch = IF pc = "load_batch" THEN input ELSE <<>>
    /\ schema \in BOOLEAN
    /\ table \in IF schema THEN { <<>> } \cup { Rows(<<r>>) : r \in LoaderRows }
                           ELSE { <<>> }
    /\ calls = << Call("version", TRUE, <<>>) >>
    /\ conns = << "open" >>
    /\ loader = 1
    /\ Fresh

\* the sizing of the population alone, for any row count
InitPopulation ==
    /\ entry = "population"
    /\ pc \in {"device_ids", "batch_device_ids"}
    /\ \E n \in 0..MaxPopRows :
         /\ args = [ rows |-> IF pc = "device_ids" THEN n ELSE 0, batch_size |-> 1,
                     generate_only |-> FALSE ]
         /\ config = PoorConfig(IF pc = "device_ids" THEN 0 ELSE n)
    /\ rnd = PoorRandom
    /\ df = <<>>
    /\ df_batch = <<>>
    /\ table = <<>>
    /\ schema = FALSE
    /\ calls = <<>>
    /\ conns = <<>>
    /\ loader = 0
    /\ Fresh

Next ==
    \/ Connect
    \/ ChooseMode
    \/ GenerateDataframe
    \/ NewLoader
    \/ CreateTable
    \/ LoadDataBegin
    \/ LoadDataInsert
    \/ LoadDataVerify
    \/ MakeGenerator
    \/ GenNext
    \/ LoadDataBatch
    \/ Verify
    \/ Disconnect

NextGen ==
    \/ GenerateDataframe
    \/ MakeGenerator
    \/ GenNext

NextLoader ==
    \/ CreateTable
    \/ LoadDataBegin
    \/ LoadDataInsert
    \/ LoadDataVerify
    \/ LoadDataBatch
    \/ Verify
    \/ Disconnect

NextPopulation ==
    \/ DeviceIdsOfDataframe
    \/ DeviceIdsOfBatches

Spec == Init /\ [][Next]_vars
SpecPopulation == InitPopulation /\ [][NextPopulation]_vars
SpecGen == InitGen /\ [][NextGen]_vars
SpecLoader == InitLoader /\ [][NextLoader]_vars

(***************************************************************************)
(* Properties.                                                             *)
(***************************************************************************)
\* the INSERT statements issued so far, in order
InsertCalls == SelectSeq(calls, LAMBDA c : c.op = "insert")

\* how often a method has been invoked so far
Count(method) == Len(SelectSeq(trace, LAMBDA m : m = method))

BatchSizes(batches) == [ k \in 1..Len(batches) |-> Len(batches[k]) ]

\* the batches a run hands to the store, as rows: the contiguous slices of the
\* dataframe on the whole-dataset path, the yielded batches on the streamed path
ReceivedBatches ==
    IF mode = "whole"
    THEN [ k \in 1..CeilDiv(Len(df), args.batch_size) |->
             Rows(SubSeq(df, (k - 1) * args.batch_size + 1,
                         Min(k * args.batch_size, Len(df)))) ]
    ELSE [ k \in 1..Len(yielded) |-> Rows(yielded[k]) ]

\* C1: with N = num_rows the generator reads and B the batch size, streamed
\* generation never yields more than ceil(N/B) batches, every batch but the last
\* has exactly B records, and once the generator is exhausted (N >= 1) it has
\* yielded exactly ceil(N/B) batches, the last of N mod B records (B when B
\* divides N), N records in all.
C1_StreamedBatchSizes ==
    LET N     == config.num_rows
        B     == args.batch_size
        sizes == BatchSizes(yielded)
    IN  /\ Len(sizes) <= CeilDiv(N, B)
        /\ \A k \in 1..Len(sizes) : k < CeilDiv(N, B) => sizes[k] = B
        /\ (gen.state = "finished" /\ N >= 1) =>
              /\ Len(sizes) = CeilDiv(N, B)
              /\ sizes[Len(sizes)] = (IF N % B = 0 THEN B ELSE N % B)
              /\ SumLen(yielded) = N

\* five rows in batches of two: the exhausted generator has yielded 2, 2, 1
C1_Witness ==
    /\ gen.state = "finished"
    /\ BatchSizes(yielded) = <<2, 2, 1>>

\* C2: when the insert of batch k raises, it is the last INSERT ever issued (no
\* retry, nothing after it), it carried batch k, the table holds exactly the rows
\* of batches 1..k-1, and the run has ended with the exception.
C2_FailedInsertAborts ==
    \A k \in 1..Len(InsertCalls) :
        ~InsertCalls[k].ok =>
            /\ k = Len(InsertCalls)
            /\ k <= Len(ReceivedBatches)
            /\ InsertCalls[k].rows = ReceivedBatches[k]
            /\ table = Flatten(SubSeq(ReceivedBatches, 1, k - 1))
            /\ pc = "done"
            /\ exit_status = 1

\* batch 2 of 3 of a whole-collection load has failed; batch 1 is in the table
C2_Witness ==
    /\ mode = "whole"
    /\ Len(ReceivedBatches) = 3
    /\ Len(InsertCalls) = 2
    /\ ~InsertCalls[2].ok
    /\ table = ReceivedBatches[1]

\* C3: in generate-only mode the run issues no schema-creation statement and no
\* INSERT, on either path.
C3_GenerateOnlyWritesNothing ==
    args.generate_only =>
        \A i \in 1..Len(calls) :
            calls[i].op \notin {"create_database", "create_table", "insert"}

\* C4 as stated: whole-dataset strictly below the threshold, streamed at or above
C4_StreamedAtThreshold ==
    mode # "none" =>
        /\ args.rows < Threshold => mode = "whole"
        /\ args.rows >= Threshold => mode = "streamed"

\* C4, amended: a row count at or below the threshold takes the whole-dataset
\* path (generate_dataframe, then at most one load_data call and no batch call);
\* a row count above it takes the streamed path, where every yielded batch is
\* handed to load_data_batch before the next one is generated.
C4_ModeByThreshold ==
    mode # "none" =>
        /\ args.rows <= Threshold =>
              /\ mode = "whole"
              /\ Count("load_data") <= 1
              /\ Count("load_data_batch") = 0
              /\ Count("generate_data_batches") = 0
              /\ (pc = "done" /\ exit_status = 0 /\ ~args.generate_only) =>
                    Count("generate_dataframe") = 1 /\ Count("load_data") = 1
        /\ args.rows > Threshold =>
              /\ mode = "streamed"
              /\ Count("generate_dataframe") = 0
              /\ Count("load_data") = 0
              /\ Count("load_data_batch") =
                    IF pc = "load_batch" THEN Len(yielded) - 1 ELSE Len(yielded)

\* a run of exactly Threshold rows has gone through load_data
C4_Witness ==
    /\ args.rows = Threshold
    /\ mode = "whole"
    /\ Count("load_data") = 1
    /\ Len(InsertCalls) > 0

\* C5: with loading enabled, every INSERT is preceded by a CREATE TABLE that
\* succeeded, in both modes.
C5_SchemaBeforeInsert ==
    ~args.generate_only =>
        \A i \in 1..Len(calls) :
            calls[i].op = "insert" =>
                \E j \in 1..(i - 1) : calls[j].op = "create_table" /\ calls[j].ok

\* a streamed run with loading enabled has issued an INSERT
C5_Witness ==
    /\ ~args.generate_only
    /\ mode = "streamed"
    /\ Len(InsertCalls) > 0

\* C6: in a run with loading enabled, verify_data_count is never called more
\* than once and no INSERT follows its COUNT query; a run that ends normally has
\* called it exactly once, after the INSERT of every batch, in both modes.
C6_VerifyOnceAfterLastInsert ==
    ~args.generate_only =>
        /\ Count("verify_data_count") <= 1
        /\ \A i, j \in 1..Len(calls) :
              (calls[i].op = "count" /\ calls[j].op = "insert") => j < i
        /\ (pc = "done" /\ exit_status = 0) =>
              /\ Count("verify_data_count") = 1
              /\ \E i \in 1..Len(calls) : calls[i].op = "count"
              /\ Len(InsertCalls) = Len(ReceivedBatches)

\* a streamed run with loading enabled has ended normally after three INSERTs
C6_Witness ==
    /\ ~args.generate_only
    /\ mode = "streamed"
    /\ pc = "done"
    /\ exit_status = 0
    /\ Len(InsertCalls) = 3
    /\ Count("verify_data_count") = 1

\* every record generated so far, by generate_dataframe or by the generator object
GeneratedRecords ==
    Range(df) \cup UNION { Range(yielded[k]) : k \in 1..Len(yielded) }

\* C7: every generated record has an event date not earlier than the creation
\* date of its device and not later than the configured end date.
C7_EventDateBounds ==
    \A r \in GeneratedRecords :
        /\ r.device_id \in DOMAIN device_profiles
        /\ DateLE(device_profiles[r.device_id].created_date, r.date)
        /\ DateLE(r.date, Strptime(config.end_date))

\* one record of a device created on the end date, and one record dated after
\* the creation of its device
C7_Witness ==
    \E r, q \in GeneratedRecords :
        /\ device_profiles[r.device_id].created_date = Strptime(config.end_date)
        /\ r.date = Strptime(config.end_date)
        /\ DateLT(device_profiles[q.device_id].created_date, q.date)

\* C8: once generate_dataframe(N) has been called, it has returned exactly N
\* records, sorted in non-decreasing order of event_time.
C8_GenerateAllCountAndOrder ==
    (entry = "generator" /\ Count("generate_dataframe") = 1) =>
        /\ exit_status = 0
        /\ Len(df) = args.rows
        /\ IsSortedByEventTime(df)

\* C9: loading an empty collection (load_data) or an empty batch
\* (load_data_batch) issues no INSERT, leaves the table as it is and raises
\* nothing.
C9_EmptyLoadIsNoOp ==
    [][ ( \/ pc = "load_data" /\ df = <<>>
          \/ pc = "load_batch" /\ df_batch = <<>> )
        => ( /\ InsertCalls' = InsertCalls
             /\ table' = table
             /\ exit_status' # 1 ) ]_vars

\* load_data has returned from an empty collection; the table had a row
C9_Witness ==
    /\ entry = "loader"
    /\ trace = << "load_data" >>
    /\ df = <<>>
    /\ pc = "done"
    /\ exit_status = 0
    /\ table # <<>>

\* C10: a load_data call on n >= 1 records with batch size B that returns
\* normally has issued exactly ceil(n/B) INSERTs, all but the last of exactly B
\* rows and the last of at most B, whose rows concatenated in call order are the
\* rows of the collection in order.
C10_LoadPartitionsCollection ==
    (entry = "loader" /\ Count("load_data") = 1 /\ df # <<>>
        /\ pc = "done" /\ exit_status = 0) =>
        LET n == Len(df)
            B == args.batch_size
        IN  /\ Len(InsertCalls) = CeilDiv(n, B)
            /\ \A k \in 1..Len(InsertCalls) :
                  /\ InsertCalls[k].ok
                  /\ Len(InsertCalls[k].rows) >= 1
                  /\ Len(InsertCalls[k].rows) <= B
                  /\ k < Len(InsertCalls) => Len(InsertCalls[k].rows) = B
            /\ Flatten([ k \in 1..Len(InsertCalls) |-> InsertCalls[k].rows ])
                  = [ i \in 1..n |-> ToTuple(df[i]) ]

\* five records loaded in batches of two: three INSERTs, and two devices occur
C10_Witness ==
    /\ entry = "loader"
    /\ Count("load_data") = 1
    /\ pc = "done"
    /\ exit_status = 0
    /\ Len(df) = 5
    /\ args.batch_size = 2
    /\ Len(InsertCalls) = 3
    /\ df[1] # df[2]

\* C11: once a verification query (the COUNT or the per-event statistics) has
\* failed after a load whose INSERTs all succeeded, nothing is raised for it:
\* the table still holds the rows of every batch, the run is never ended by an
\* exception, and when it has ended its exit status is zero, in both modes.
C11_VerifyFailureNonFatal ==
    ( /\ \E i \in 1..Len(calls) : calls[i].op \in {"count", "stats"} /\ ~calls[i].ok
      /\ \A k \in 1..Len(InsertCalls) : InsertCalls[k].ok )
    => /\ table = Flatten(ReceivedBatches)
       /\ exit_status # 1
       /\ pc = "done" => exit_status = 0

\* a streamed run with loading enabled has ended normally with its rows in the
\* table although the COUNT query of the verification failed
C11_Witness ==
    /\ ~args.generate_only
    /\ mode = "streamed"
    /\ pc = "done"
    /\ exit_status = 0
    /\ table # <<>>
    /\ \E i \in 1..Len(calls) : calls[i].op = "count" /\ ~calls[i].ok

\* C12: when the CREATE DATABASE or the CREATE TABLE statement is rejected, it
\* is the last statement the run sends to the store (no retry), the run has
\* ended with the exception, and no INSERT has been or will be issued.
C12_SchemaFailureAborts ==
    \A i \in 1..Len(calls) :
        (calls[i].op \in {"create_database", "create_table"} /\ ~calls[i].ok) =>
            /\ i = Len(calls)
            /\ InsertCalls = <<>>
            /\ pc = "done"
            /\ exit_status = 1

\* CREATE TABLE was rejected in a run that had rows to load into an existing
\* table; the run is over
C12_Witness ==
    /\ ~args.generate_only
    /\ schema
    /\ (IF mode = "whole" THEN args.rows ELSE config.num_rows) >= 1
    /\ Len(calls) >= 1
    /\ calls[Len(calls)] = Call("create_table", FALSE, <<>>)
    /\ pc = "done"

\* a connectivity, schema or insert statement of the run has been rejected
StoreError ==
    \E i \in 1..Len(calls) :
        calls[i].op \in {"version", "create_database", "create_table", "insert"}
            /\ ~calls[i].ok

\* C13: a run that has ended has a non-zero exit status exactly when a
\* connectivity, schema or insert error occurred in it, and status zero when
\* none did; such an error ends the run at once.
C13_StatusByStoreErrors ==
    /\ StoreError => pc = "done"
    /\ pc = "done" => (IF StoreError THEN exit_status = 1 ELSE exit_status = 0)

\* C14: in every state of a run the table holds exactly the rows of the first j
\* batches the loader received, in that order, where j is the number of INSERTs
\* that succeeded: every INSERT carries one whole batch, in the order received,
\* and no batch is ever in the table in part.
C14_TableIsBatchPrefix ==
    /\ Len(InsertCalls) <= Len(ReceivedBatches)
    /\ \A k \in 1..Len(InsertCalls) : InsertCalls[k].rows = ReceivedBatches[k]
    /\ \E j \in 0..Len(ReceivedBatches) :
         /\ table = Flatten(SubSeq(ReceivedBatches, 1, j))
         /\ j = Len(SelectSeq(InsertCalls, LAMBDA c : c.ok))

\* a streamed run was aborted at its third batch: the table holds the first
\* two batches, which differ, in order
C14_Witness ==
    /\ mode = "streamed"
    /\ exit_status = 1
    /\ Len(InsertCalls) = 3
    /\ ReceivedBatches[1] # ReceivedBatches[2]
    /\ table = ReceivedBatches[1] \o ReceivedBatches[2]

\* C15: when a run with loading enabled has ended normally, the number of rows
\* it inserted equals the row count its command line asked for, in both modes.
C15_InsertedEqualsRequested ==
    (~args.generate_only /\ pc = "done" /\ exit_status = 0) =>
        /\ SumLen([ k \in 1..Len(InsertCalls) |-> InsertCalls[k].rows ]) = args.rows
        /\ Len(table) = args.rows

\* C16: in streamed mode at most one yielded batch has not been handed to
\* load_data_batch, and there is one exactly while main is about to load it:
\* the generator is resumed for batch k+1 only after the INSERT of batch k has
\* returned, so the k-th INSERT carries the k-th yielded batch.
C16_GenerateInsertAlternate ==
    mode = "streamed" =>
        LET pending == Len(yielded) - Count("load_data_batch")
        IN  /\ pending \in {0, 1}
            /\ pending = 1 <=> pc = "load_batch"
            /\ Len(InsertCalls) = Count("load_data_batch")
            /\ \A k \in 1..Len(InsertCalls) : InsertCalls[k].rows = Rows(yielded[k])

\* the third batch has been generated and waits; the first two were inserted
C16_Witness ==
    /\ mode = "streamed"
    /\ pc = "load_batch"
    /\ Len(yielded) = 3
    /\ Len(InsertCalls) = 2
    /\ InsertCalls[2].ok

\* the target row count of the generation in progress
TargetRows == IF Count("generate_data_batches") > 0 THEN config.num_rows ELSE args.rows

\* C17: once the population of a generation for N rows has been sized, its
\* size is max(1000, ceil(0.10 * N)), in whole-dataset and streamed generation.
C17_PopulationCeil ==
    (entry = "population" /\ pc = "done") =>
        unique_devices = Max(1000, CeilDiv(TargetRows, 10))

\* C18: every generated record carries the city and the operating system of
\* the profile of its device, so two records of one generation with the same
\* device_id agree on both, also across batches; and once device_profiles has
\* been built no step changes it.
C18_DeviceConsistency ==
    /\ [] ( /\ \A r \in GeneratedRecords :
                  /\ r.city = device_profiles[r.device_id].city
                  /\ r.device_os = device_profiles[r.device_id].device_os
            /\ \A r, q \in GeneratedRecords :
                  r.device_id = q.device_id =>
                      r.city = q.city /\ r.device_os = q.device_os )
    /\ [][ device_profiles # <<>> => device_profiles' = device_profiles ]_vars

\* two batches of a streamed generation hold a record of the same device, in a
\* population whose two devices differ in city and in operating system
C18_Witness ==
    /\ Len(yielded) = 2
    /\ \E r \in Range(yielded[1]), q \in Range(yielded[2]) : r.device_id = q.device_id
    /\ device_profiles[1].city # device_profiles[2].city
    /\ device_profiles[1].device_os # device_profiles[2].device_os

\* C19: when a run has ended normally, every ClickHouseLoader constructed in
\* it has been disconnected, in every mode.
C19_AllConnectionsClosed ==
    (pc = "done" /\ exit_status = 0) =>
        \A i \in 1..Len(conns) : conns[i] = "closed"

====
